---- MODULE Spec2Model ----
(***************************************************************************)
(* Util::EnumClassBitset<T> (enumclassbitset.hpp): a std::bitset keyed by  *)
(* the members of an enum class T, with its forward iterator, and the      *)
(* callers of the unit test and of the example program.                    *)
(*                                                                         *)
(* An enumeration member is its ordinal 0..max, max being the ordinal of   *)
(* EnumTraits<T>::max.  A std::bitset<size> is the set of the positions    *)
(* whose bit is 1.  The storage word of a bitset is wider than size: the   *)
(* position max, one past the last valid position of bitset<max>, is kept  *)
(* as the padding bit an unchecked operator[] can reach.                   *)
(***************************************************************************)
EXTENDS Integers, Sequences, FiniteSets

\* Largest ordinal of EnumTraits<T>::max tried for the one-object runs.
MaxOrdinal == 4

\* Largest ordinal of EnumTraits<T>::max tried for the three-object runs.
MaxOrdinalAlg == 2

VARIABLES
    max,      \* ordinal of EnumTraits<T>::max, fixed by the type T
    sets,     \* sets[o]: mBitset of the EnumClassBitset object o
    raw,      \* the caller's std::bitset returned by to_raw_bitset()
    it,       \* the iterator of the caller's range-based for loop
    endIt,    \* the end() iterator of that loop
    loop,     \* "idle", "running" or "done": the caller's for loop
    yielded,  \* the members the loop body has seen, in order
    call,     \* the last call made on the interface
    ret       \* what that call returned or raised

vars == <<max, sets, raw, it, endIt, loop, yielded, call, ret>>

\* The EnumClassBitset objects of a caller (e, e2, e3 of the unit test).
Objs == {"a", "b", "c"}

\* The members of the enumeration T, by ordinal: 0 .. ordinal(max).
Members == 0 .. max

----------------------------------------------------------------------------
\* The class, as pure functions of the stored bits.

\* ImplType is std::bitset<static_cast<std::size_t>(EnumTraits<T>::max)>,
\* and size() is mBitset.size(): the template argument.
size == max

enumIndex(member) == member

\* The valid positions of ImplType.
Positions == 0 .. (size - 1)

\* std::bitset::test(pos) on the bits of an ImplType: raises
\* std::out_of_range when pos >= size().
BitsetTest(bits, pos) ==
    IF pos >= size
    THEN [err |-> "out_of_range", val |-> FALSE]
    ELSE [err |-> "none", val |-> pos \in bits]

\* test(member)
test(s, member) == BitsetTest(sets[s], enumIndex(member))

\* std::bitset::all(): the storage word equals the mask of the valid bits.
all(s) == sets[s] = Positions

\* std::bitset::any(): the storage word is not zero.
any(s) == sets[s] # {}

none(s) == ~ any(s)

\* std::bitset::count(): the population count of the storage word.
count(s) == Cardinality(sets[s])

\* operator==: the storage words are equal.
Equal(s, other) == sets[s] = sets[other]

\* operator!=
NotEqual(s, other) == sets[s] # sets[other]

----------------------------------------------------------------------------
\* Records of a call and of its outcome.

\* The member field of a call that takes no member.
NoMember == 0 - 1

Call(op, s, other, dst, member, value) ==
    [op |-> op, self |-> s, other |-> other, dst |-> dst,
     member |-> member, value |-> value]

\* A call that returned a bool.
RetBool(b) == [err |-> "none", kind |-> "bool", bool |-> b, num |-> 0, ref |-> "-"]

\* A call that returned a std::size_t.
RetNum(n) == [err |-> "none", kind |-> "num", bool |-> FALSE, num |-> n, ref |-> "-"]

\* A call that returned *this, or a new object stored in o.
RetRef(o) == [err |-> "none", kind |-> "ref", bool |-> FALSE, num |-> 0, ref |-> o]

\* A call that returned nothing the model keeps.
RetVoid == [err |-> "none", kind |-> "void", bool |-> FALSE, num |-> 0, ref |-> "-"]

\* A call that raised std::out_of_range (e = "out_of_range"), or that ended
\* the process after undefined behaviour (e = "abort").
RetErr(e) == [err |-> e, kind |-> "void", bool |-> FALSE, num |-> 0, ref |-> "-"]

\* The process is alive: no undefined behaviour has ended it.
Running == ret.err # "abort"

NoIterator == [bitset |-> "-", index |-> 0, value |-> 0]

NoRaw == [present |-> FALSE, size |-> 0, bits |-> {}]

TypeOK ==
    /\ max \in Nat
    /\ sets \in [Objs -> SUBSET Members]
    /\ loop \in {"idle", "running", "done"}
    /\ ret.err \in {"none", "out_of_range", "abort"}

----------------------------------------------------------------------------
\* The state after EnumClassBitset<T> e, e2, e3; for an enumeration T whose
\* last member has an ordinal up to bound.
InitFor(bound) ==
    /\ max \in 0 .. bound
    /\ sets = [o \in Objs |-> {}]
    /\ raw = NoRaw
    /\ it = NoIterator
    /\ endIt = NoIterator
    /\ loop = "idle"
    /\ yielded = << >>
    /\ call = Call("construct", "a", "-", "-", NoMember, FALSE)
    /\ ret = RetVoid

Init == InitFor(MaxOrdinal)

\* What a call leaves alone besides the set it is made on.
Frame == UNCHANGED <<max, raw, it, endIt, loop, yielded>>

\* EnumClassBitset(): all members are not in the set.
Construct(s) ==
    /\ Running
    /\ sets' = [sets EXCEPT ![s] = {}]
    /\ call' = Call("construct", s, "-", "-", NoMember, FALSE)
    /\ ret' = RetVoid
    /\ Frame

\* set(member, value): std::bitset::set(pos, val) raises std::out_of_range
\* when pos >= size(), and changes nothing then.
Set(s, member, value) ==
    /\ Running
    /\ call' = Call("set", s, "-", "-", member, value)
    /\ IF enumIndex(member) >= size
       THEN /\ ret' = RetErr("out_of_range")
            /\ sets' = sets
       ELSE /\ ret' = RetRef(s)
            /\ sets' = [sets EXCEPT ![s] =
                           IF value THEN @ \cup {enumIndex(member)}
                                    ELSE @ \ {enumIndex(member)}]
    /\ Frame

\* reset(member): std::bitset::reset(pos) raises std::out_of_range when
\* pos >= size().
Reset(s, member) ==
    /\ Running
    /\ call' = Call("reset", s, "-", "-", member, FALSE)
    /\ IF enumIndex(member) >= size
       THEN /\ ret' = RetErr("out_of_range")
            /\ sets' = sets
       ELSE /\ ret' = RetRef(s)
            /\ sets' = [sets EXCEPT ![s] = @ \ {enumIndex(member)}]
    /\ Frame

\* flip(member): std::bitset::flip(pos) raises std::out_of_range when
\* pos >= size().
FlipMember(s, member) ==
    /\ Running
    /\ call' = Call("flip_member", s, "-", "-", member, FALSE)
    /\ IF enumIndex(member) >= size
       THEN /\ ret' = RetErr("out_of_range")
            /\ sets' = sets
       ELSE /\ ret' = RetRef(s)
            /\ sets' = [sets EXCEPT ![s] =
                           IF enumIndex(member) \in @
                           THEN @ \ {enumIndex(member)}
                           ELSE @ \cup {enumIndex(member)}]
    /\ Frame

\* std::bitset::flip(): every valid bit is inverted and the bits of the
\* storage word past size() are cleared.
FlipBits(bits) == Positions \ bits

\* flip()
Flip(s) ==
    /\ Running
    /\ call' = Call("flip", s, "-", "-", NoMember, FALSE)
    /\ ret' = RetRef(s)
    /\ sets' = [sets EXCEPT ![s] = FlipBits(@)]
    /\ Frame

\* e[member] = value: the non-const operator[] and an assignment through the
\* std::bitset::reference it returns.  std::bitset::operator[] checks nothing:
\* with pos >= size() the behaviour is undefined, and a build either writes
\* the bit of the storage word past the valid ones, or changes nothing, or
\* ends the process on a library assertion.
IndexAssign(s, member, value) ==
    /\ Running
    /\ call' = Call("index_assign", s, "-", "-", member, value)
    /\ IF enumIndex(member) < size
       THEN /\ ret' = RetVoid
            /\ sets' = [sets EXCEPT ![s] =
                           IF value THEN @ \cup {enumIndex(member)}
                                    ELSE @ \ {enumIndex(member)}]
       ELSE \/ /\ ret' = RetVoid
               /\ sets' = [sets EXCEPT ![s] =
                              IF value THEN @ \cup {enumIndex(member)}
                                       ELSE @ \ {enumIndex(member)}]
            \/ /\ ret' = RetVoid
               /\ sets' = sets
            \/ /\ ret' = RetErr("abort")
               /\ sets' = sets
    /\ Frame

\* e[member] on a const object: the const operator[].  With pos >= size()
\* the behaviour is undefined: a build returns either bool, or ends the
\* process on a library assertion.
IndexRead(s, member) ==
    /\ Running
    /\ call' = Call("index_read", s, "-", "-", member, FALSE)
    /\ IF enumIndex(member) < size
       THEN ret' = RetBool(enumIndex(member) \in sets[s])
       ELSE \/ \E b \in BOOLEAN : ret' = RetBool(b)
            \/ ret' = RetErr("abort")
    /\ UNCHANGED sets
    /\ Frame

\* test(member)
Test(s, member) ==
    /\ Running
    /\ call' = Call("test", s, "-", "-", member, FALSE)
    /\ ret' = IF test(s, member).err = "none"
              THEN RetBool(test(s, member).val)
              ELSE RetErr(test(s, member).err)
    /\ UNCHANGED sets
    /\ Frame

\* all()
All(s) ==
    /\ Running
    /\ call' = Call("all", s, "-", "-", NoMember, FALSE)
    /\ ret' = RetBool(all(s))
    /\ UNCHANGED sets
    /\ Frame

\* any()
Any(s) ==
    /\ Running
    /\ call' = Call("any", s, "-", "-", NoMember, FALSE)
    /\ ret' = RetBool(any(s))
    /\ UNCHANGED sets
    /\ Frame

\* none()
None(s) ==
    /\ Running
    /\ call' = Call("none", s, "-", "-", NoMember, FALSE)
    /\ ret' = RetBool(none(s))
    /\ UNCHANGED sets
    /\ Frame

\* count()
Count(s) ==
    /\ Running
    /\ call' = Call("count", s, "-", "-", NoMember, FALSE)
    /\ ret' = RetNum(count(s))
    /\ UNCHANGED sets
    /\ Frame

\* size()
Size(s) ==
    /\ Running
    /\ call' = Call("size", s, "-", "-", NoMember, FALSE)
    /\ ret' = RetNum(size)
    /\ UNCHANGED sets
    /\ Frame

\* The calls on one object.
MemberOps(s) ==
    \/ Construct(s)
    \/ \E member \in Members, value \in BOOLEAN : Set(s, member, value)
    \/ \E member \in Members : Reset(s, member)
    \/ \E member \in Members : FlipMember(s, member)
    \/ Flip(s)
    \/ \E member \in Members, value \in BOOLEAN : IndexAssign(s, member, value)
    \/ \E member \in Members : IndexRead(s, member)
    \/ \E member \in Members : Test(s, member)
    \/ All(s)
    \/ Any(s)
    \/ None(s)
    \/ Count(s)
    \/ Size(s)

----------------------------------------------------------------------------
\* Comparison, copies and the set algebra, on two or three objects.

\* operator==
Eq(s, other) ==
    /\ Running
    /\ call' = Call("eq", s, other, "-", NoMember, FALSE)
    /\ ret' = RetBool(Equal(s, other))
    /\ UNCHANGED sets
    /\ Frame

\* operator!=
Neq(s, other) ==
    /\ Running
    /\ call' = Call("neq", s, other, "-", NoMember, FALSE)
    /\ ret' = RetBool(NotEqual(s, other))
    /\ UNCHANGED sets
    /\ Frame

\* auto dst = s; the implicit copy constructor copies mBitset.
Copy(dst, s) ==
    /\ Running
    /\ call' = Call("copy", s, "-", dst, NoMember, FALSE)
    /\ ret' = RetRef(dst)
    /\ sets' = [sets EXCEPT ![dst] = sets[s]]
    /\ Frame

\* operator&=
AndAssign(s, other) ==
    /\ Running
    /\ call' = Call("and_assign", s, other, "-", NoMember, FALSE)
    /\ ret' = RetRef(s)
    /\ sets' = [sets EXCEPT ![s] = sets[s] \cap sets[other]]
    /\ Frame

\* operator|=
OrAssign(s, other) ==
    /\ Running
    /\ call' = Call("or_assign", s, other, "-", NoMember, FALSE)
    /\ ret' = RetRef(s)
    /\ sets' = [sets EXCEPT ![s] = sets[s] \cup sets[other]]
    /\ Frame

\* operator^=
XorAssign(s, other) ==
    /\ Running
    /\ call' = Call("xor_assign", s, other, "-", NoMember, FALSE)
    /\ ret' = RetRef(s)
    /\ sets' = [sets EXCEPT ![s] =
                   (sets[s] \ sets[other]) \cup (sets[other] \ sets[s])]
    /\ Frame

\* operator& without its copy: &= is applied to *this, which is returned.
AndInPlace(dst, s, other) ==
    /\ Running
    /\ call' = Call("and", s, other, dst, NoMember, FALSE)
    /\ ret' = RetRef(dst)
    /\ sets' = [o \in Objs |->
                   IF o \in {s, dst} THEN sets[s] \cap sets[other] ELSE sets[o]]
    /\ Frame

\* dst = s & other: newBitset is a copy of *this, changed by &= and returned.
And(dst, s, other) ==
    /\ Running
    /\ call' = Call("and", s, other, dst, NoMember, FALSE)
    /\ ret' = RetRef(dst)
    /\ sets' = [sets EXCEPT ![dst] = sets[s] \cap sets[other]]
    /\ Frame

\* dst = s | other
Or(dst, s, other) ==
    /\ Running
    /\ call' = Call("or", s, other, dst, NoMember, FALSE)
    /\ ret' = RetRef(dst)
    /\ sets' = [sets EXCEPT ![dst] = sets[s] \cup sets[other]]
    /\ Frame

\* dst = s ^ other
Xor(dst, s, other) ==
    /\ Running
    /\ call' = Call("xor", s, other, dst, NoMember, FALSE)
    /\ ret' = RetRef(dst)
    /\ sets' = [sets EXCEPT ![dst] =
                   (sets[s] \ sets[other]) \cup (sets[other] \ sets[s])]
    /\ Frame

\* dst = ~s: newBitset is a copy of *this, flipped and returned.
Not(dst, s) ==
    /\ Running
    /\ call' = Call("not", s, "-", dst, NoMember, FALSE)
    /\ ret' = RetRef(dst)
    /\ sets' = [sets EXCEPT ![dst] = FlipBits(sets[s])]
    /\ Frame

----------------------------------------------------------------------------
\* The raw export and the caller's use of the exported std::bitset.

\* to_raw_bitset(): a copy of mBitset, of type ImplType.
ToRawBitset(s) ==
    /\ Running
    /\ call' = Call("to_raw_bitset", s, "-", "-", NoMember, FALSE)
    /\ ret' = RetVoid
    /\ raw' = [present |-> TRUE, size |-> size, bits |-> sets[s]]
    /\ UNCHANGED <<max, sets, it, endIt, loop, yielded>>

\* raw.set(pos, value) on the exported copy: std::bitset::set raises
\* std::out_of_range when pos >= raw.size().
RawSet(pos, value) ==
    /\ Running
    /\ raw.present
    /\ call' = Call("raw_set", "-", "-", "-", pos, value)
    /\ IF pos >= raw.size
       THEN /\ ret' = RetErr("out_of_range")
            /\ raw' = raw
       ELSE /\ ret' = RetVoid
            /\ raw' = [raw EXCEPT !.bits =
                          IF value THEN @ \cup {pos} ELSE @ \ {pos}]
    /\ UNCHANGED <<max, sets, it, endIt, loop, yielded>>

----------------------------------------------------------------------------
\* The iterator.

\* iterator(argBitset, argIndex)
iterator(argBitset, argIndex) ==
    [bitset |-> argBitset, index |-> argIndex, value |-> argIndex]

\* findNext(): test is called with index < size() only, so it never raises.
RECURSIVE findNext(_)
findNext(iter) ==
    IF iter.index < size
    THEN IF test(iter.bitset, iter.index).val
         THEN [iter EXCEPT !.value = iter.index]
         ELSE findNext([iter EXCEPT !.value = iter.index, !.index = @ + 1])
    ELSE iter

\* begin()
begin(s) == findNext(iterator(s, 0))

\* end(): the index is EnumTraits<T>::max itself.
end(s) == iterator(s, max)

\* iterator::operator++
increment(iter) == findNext([iter EXCEPT !.index = @ + 1])

\* iterator::operator==
IterEqual(iter, other) ==
    iter.bitset = other.bitset /\ iter.index = other.index

\* iterator::operator!=
IterNotEqual(iter, other) == ~ IterEqual(iter, other)

\* for (auto el : s): the loop takes s.begin() and s.end().
ForBegin(s) ==
    /\ Running
    /\ loop = "idle"
    /\ it' = begin(s)
    /\ endIt' = end(s)
    /\ loop' = "running"
    /\ yielded' = << >>
    /\ call' = Call("for_begin", s, "-", "-", NoMember, FALSE)
    /\ ret' = RetVoid
    /\ UNCHANGED <<max, sets, raw>>

\* One turn of the loop: it != end, el = *it, the body, ++it.
ForStep ==
    /\ Running
    /\ loop = "running"
    /\ IterNotEqual(it, endIt)
    /\ yielded' = Append(yielded, it.value)
    /\ it' = increment(it)
    /\ call' = Call("for_step", it.bitset, "-", "-", NoMember, FALSE)
    /\ ret' = RetVoid
    /\ UNCHANGED <<max, sets, raw, endIt, loop>>

\* The loop ends when it == end.
ForEnd ==
    /\ Running
    /\ loop = "running"
    /\ IterEqual(it, endIt)
    /\ loop' = "done"
    /\ call' = Call("for_end", it.bitset, "-", "-", NoMember, FALSE)
    /\ ret' = RetVoid
    /\ UNCHANGED <<max, sets, raw, it, endIt, yielded>>

\* The caller goes on after the loop.
ForLeave ==
    /\ Running
    /\ loop = "done"
    /\ loop' = "idle"
    /\ it' = NoIterator
    /\ endIt' = NoIterator
    /\ yielded' = << >>
    /\ call' = Call("for_leave", "-", "-", "-", NoMember, FALSE)
    /\ ret' = RetVoid
    /\ UNCHANGED <<max, sets, raw>>

----------------------------------------------------------------------------
\* One object: every call on it, and its raw export.
Next ==
    \/ MemberOps("a")
    \/ ToRawBitset("a")
    \/ \E pos \in Members, value \in BOOLEAN : RawSet(pos, value)

Spec == Init /\ [][Next]_vars

\* One object and the caller's loop over it; the body of the loop does not
\* change the set.
NextIter ==
    \/ \E member \in Members, value \in BOOLEAN :
           loop = "idle" /\ Set("a", member, value)
    \/ \E member \in Members, value \in BOOLEAN :
           loop = "idle" /\ IndexAssign("a", member, value)
    \/ loop = "idle" /\ Flip("a")
    \/ ForBegin("a")
    \/ ForStep
    \/ ForEnd
    \/ ForLeave

SpecIter == Init /\ [][NextIter]_vars

\* Three objects of one enumeration, filled by set() and flip(): comparison,
\* copies and the set algebra.
InitAlg == InitFor(MaxOrdinalAlg)

NextAlg ==
    \/ \E s \in Objs, member \in Members, value \in BOOLEAN :
           Set(s, member, value)
    \/ \E s \in Objs : Flip(s)
    \/ \E s, other \in Objs : Eq(s, other)
    \/ \E s, other \in Objs : Neq(s, other)
    \/ \E dst, s \in Objs : Copy(dst, s)
    \/ \E s, other \in Objs : AndAssign(s, other)
    \/ \E s, other \in Objs : OrAssign(s, other)
    \/ \E s, other \in Objs : XorAssign(s, other)
    \/ \E dst, s, other \in Objs : And(dst, s, other)
    \/ \E dst, s, other \in Objs : Or(dst, s, other)
    \/ \E dst, s, other \in Objs : Xor(dst, s, other)
    \/ \E dst, s \in Objs : Not(dst, s)

SpecAlg == InitAlg /\ [][NextAlg]_vars

----------------------------------------------------------------------------
\* Two iterators of a caller, kept in it and endIt, over two objects.

\* The caller's iterator variable named slot.
Slot(slot) == IF slot = "it" THEN it ELSE endIt

\* The caller's iterator variable slot becomes iter.
Store(slot, iter) ==
    /\ it' = IF slot = "it" THEN iter ELSE it
    /\ endIt' = IF slot = "endIt" THEN iter ELSE endIt

\* auto slot = s.begin()
Begin(slot, s) ==
    /\ Running
    /\ Store(slot, begin(s))
    /\ call' = Call("begin", s, "-", slot, NoMember, FALSE)
    /\ ret' = RetNum(begin(s).index)
    /\ UNCHANGED <<max, sets, raw, loop, yielded>>

\* auto slot = s.end()
End(slot, s) ==
    /\ Running
    /\ Store(slot, end(s))
    /\ call' = Call("end", s, "-", slot, NoMember, FALSE)
    /\ ret' = RetNum(end(s).index)
    /\ UNCHANGED <<max, sets, raw, loop, yielded>>

\* ++slot, on an iterator that is not past the end.
Increment(slot) ==
    /\ Running
    /\ Slot(slot).bitset # "-"
    /\ Slot(slot).index < size
    /\ Store(slot, increment(Slot(slot)))
    /\ call' = Call("increment", Slot(slot).bitset, "-", slot, NoMember, FALSE)
    /\ ret' = RetNum(increment(Slot(slot)).index)
    /\ UNCHANGED <<max, sets, raw, loop, yielded>>

\* it == endIt
IterEq ==
    /\ Running
    /\ it.bitset # "-"
    /\ endIt.bitset # "-"
    /\ call' = Call("iter_eq", it.bitset, endIt.bitset, "-", NoMember, FALSE)
    /\ ret' = RetBool(IterEqual(it, endIt))
    /\ UNCHANGED <<max, sets, raw, it, endIt, loop, yielded>>

\* it != endIt
IterNeq ==
    /\ Running
    /\ it.bitset # "-"
    /\ endIt.bitset # "-"
    /\ call' = Call("iter_neq", it.bitset, endIt.bitset, "-", NoMember, FALSE)
    /\ ret' = RetBool(IterNotEqual(it, endIt))
    /\ UNCHANGED <<max, sets, raw, it, endIt, loop, yielded>>

\* The objects the two iterators range over.
IterObjs == {"a", "b"}

\* The caller's two iterator variables.
Slots == {"it", "endIt"}

NextIters ==
    \/ \E s \in IterObjs, member \in Members, value \in BOOLEAN :
           Set(s, member, value)
    \/ \E s \in IterObjs, member \in Members, value \in BOOLEAN :
           IndexAssign(s, member, value)
    \/ \E slot \in Slots, s \in IterObjs : Begin(slot, s)
    \/ \E slot \in Slots, s \in IterObjs : End(slot, s)
    \/ \E slot \in Slots : Increment(slot)
    \/ IterEq
    \/ IterNeq

SpecIters == InitAlg /\ [][NextIters]_vars

----------------------------------------------------------------------------
\* What the claims speak of.

\* K = ordinal(max) + 1: the number of members of the enumeration.
K == max + 1

\* test(member) on a set of the given bits returns b, without raising.
Returns(bits, member, b) ==
    /\ BitsetTest(bits, enumIndex(member)).err = "none"
    /\ BitsetTest(bits, enumIndex(member)).val = b

\* test(member) on the object s returns b, without raising.
TestReturns(s, member, b) == Returns(sets[s], member, b)

\* The members m of the domain for which test(m) returns true, on a set of
\* the given bits and on the object s.
TrueIn(bits) == {m \in Members : Returns(bits, m, TRUE)}

TrueMembers(s) == TrueIn(sets[s])

\* The members of S in ascending ordinal order.
RECURSIVE Ascending(_)
Ascending(S) ==
    IF S = {} THEN << >>
    ELSE LET lo == CHOOSE x \in S : \A y \in S : x <= y
         IN <<lo>> \o Ascending(S \ {lo})

\* The object a call changes: the new object of a copy or of a binary
\* operator, else the object the call is made on.
Target(c) ==
    IF c.op \in {"copy", "and", "or", "xor", "not"} THEN c.dst ELSE c.self

----------------------------------------------------------------------------
\* C1: size() of every set equals ordinal(max) + 1, in every reachable state.
\* (The code returns ordinal(max): ImplType is std::bitset<max>.)
C1_SizeIsMaxPlusOne ==
    (call.op = "size" /\ ret.err = "none") => ret.num = max + 1

\* C2: test(m) of every declared member m, 0 <= ordinal(m) <= ordinal(max),
\* returns a boolean and raises nothing, and leaves the set as it was.
\* (The code raises std::out_of_range for m = max.)
C2_TestOfMemberReturns ==
    (call.op = "test" /\ call.member \in Members) =>
        (ret.err = "none" /\ ret.kind = "bool")

\* C3: a finished loop over a set has seen exactly the members m of 0..max
\* with test(m) true, ascending, each once; no element for an empty set and
\* K elements, the whole domain, for a set that holds all members (all()).
\* (The code's full set holds max members, and the loop sees max elements.)
C3_IterationYieldsMembers ==
    loop = "done" =>
        /\ yielded = Ascending(TrueMembers(it.bitset))
        /\ TrueMembers(it.bitset) = {} => Len(yielded) = 0
        /\ all(it.bitset) => (Len(yielded) = K /\ yielded = Ascending(Members))

\* C4: each single-member write of a member m of 0..max ends without error
\* and changes exactly that member: set(m, v) and s[m] = v make test(m) = v,
\* reset(m) makes it false, flip(m) negates it; test(n) is as before for
\* every other member n.
\* (The code raises std::out_of_range in set, reset and flip for m = max.)
C4_SingleMemberWrite ==
    [][(call'.op \in {"set", "reset", "flip_member", "index_assign"}
        /\ call'.member \in Members) =>
           /\ ret'.err = "none"
           /\ call'.op \in {"set", "index_assign"} =>
                  Returns(sets'[call'.self], call'.member, call'.value)
           /\ call'.op = "reset" =>
                  Returns(sets'[call'.self], call'.member, FALSE)
           /\ call'.op = "flip_member" =>
                  \E b \in BOOLEAN :
                      /\ Returns(sets[call'.self], call'.member, b)
                      /\ Returns(sets'[call'.self], call'.member, ~ b)
           /\ \A n \in Members \ {call'.member} :
                  BitsetTest(sets'[call'.self], n) =
                      BitsetTest(sets[call'.self], n)]_vars

\* C5: a default-constructed set has none(), not any(), all() = (K = 0),
\* count() = 0, test(m) = false for every member m of 0..max, and
\* begin() = end().
\* (The code raises std::out_of_range in test(max), and all() is true for
\* the empty std::bitset<0> of a one-member enumeration.)
C5_DefaultConstructedIsEmpty ==
    call.op = "construct" =>
        /\ none(call.self)
        /\ ~ any(call.self)
        /\ all(call.self) = (K = 0)
        /\ count(call.self) = 0
        /\ \A m \in Members : TestReturns(call.self, m, FALSE)
        /\ IterEqual(begin(call.self), end(call.self))

\* C6: for every member m of 0..max, (a & b).test(m) = (a.test(m) and
\* b.test(m)), (a | b).test(m) = (a.test(m) or b.test(m)), (a ^ b).test(m) =
\* (a.test(m) # b.test(m)), (~a).test(m) = not a.test(m); &=, |=, ^= and
\* flip() leave the left operand with the same members.
\* (The code raises std::out_of_range in every test(max): see C2.)
C6_SetAlgebraPerMember ==
    [][\A m \in Members :
          \E x, y \in BOOLEAN :
              /\ call'.op \in {"and", "or", "xor", "not", "flip",
                               "and_assign", "or_assign", "xor_assign"} =>
                     Returns(sets[call'.self], m, x)
              /\ call'.op \in {"and", "or", "xor",
                               "and_assign", "or_assign", "xor_assign"} =>
                     Returns(sets[call'.other], m, y)
              /\ call'.op \in {"and", "and_assign"} =>
                     Returns(sets'[Target(call')], m, x /\ y)
              /\ call'.op \in {"or", "or_assign"} =>
                     Returns(sets'[Target(call')], m, x \/ y)
              /\ call'.op \in {"xor", "xor_assign"} =>
                     Returns(sets'[Target(call')], m, x # y)
              /\ call'.op \in {"not", "flip"} =>
                     Returns(sets'[Target(call')], m, ~ x)]_vars

\* C7: count() is the number of members m of 0..max with test(m) true,
\* all() holds iff that number is K, any() iff it is at least 1, none() is
\* not any(), and the complement of a set has K - count() members.
\* (The code's all() holds with max = K - 1 members, and flip() leaves
\* max - count() of them.)
C7_CountAllAnyNone ==
    [][/\ call'.op = "count" =>
              ret'.num = Cardinality(TrueIn(sets'[call'.self]))
       /\ call'.op = "all" =>
              ret'.bool = (Cardinality(TrueIn(sets'[call'.self])) = K)
       /\ call'.op = "any" =>
              ret'.bool = (Cardinality(TrueIn(sets'[call'.self])) >= 1)
       /\ call'.op = "none" =>
              ret'.bool = (Cardinality(TrueIn(sets'[call'.self])) = 0)
       /\ call'.op = "flip" =>
              Cardinality(sets'[call'.self]) =
                  K - Cardinality(sets[call'.self])]_vars

\* C8: a == b holds iff a.test(m) = b.test(m) for every member m of 0..max,
\* a != b is its negation, and == is reflexive, symmetric and transitive.
\* (The code raises std::out_of_range in every test(max): see C2.)
C8_EqualityIsMemberwise ==
    /\ call.op = "eq" =>
           ret.bool = (\A m \in Members : \E b \in BOOLEAN :
                          /\ TestReturns(call.self, m, b)
                          /\ TestReturns(call.other, m, b))
    /\ call.op = "neq" => ret.bool = ~ Equal(call.self, call.other)
    /\ \A x \in Objs : Equal(x, x)
    /\ \A x, y \in Objs : Equal(x, y) => Equal(y, x)
    /\ \A x, y, z \in Objs : (Equal(x, y) /\ Equal(y, z)) => Equal(x, z)

\* C9: to_raw_bitset() returns a bit vector of exactly ordinal(max) + 1 bits
\* whose bit i is test(member of ordinal i) for every i of 0..max; later
\* changes of the vector leave the set alone, and later changes of the set
\* leave the vector alone.
\* (The code returns a std::bitset of ordinal(max) bits.)
C9_RawExport ==
    [][/\ call'.op = "to_raw_bitset" =>
              /\ raw'.size = K
              /\ \A i \in Members :
                     Returns(sets'[call'.self], i, i \in raw'.bits)
       /\ call'.op = "raw_set" => sets' = sets
       /\ call'.op \notin {"to_raw_bitset", "raw_set"} => raw' = raw]_vars

\* C10: a & b, a | b, a ^ b and ~a leave their operands unchanged and yield
\* a new set; a &= b, a |= b and a ^= b change only a and return a itself; a
\* copy has the members of its original, and a later change of one object,
\* by any call, changes no other object.
C10_OperandsAndCopiesUnchanged ==
    [][/\ \A o \in Objs \ {Target(call')} : sets'[o] = sets[o]
       /\ call'.op \in {"and_assign", "or_assign", "xor_assign"} =>
              (ret'.err = "none" /\ ret'.kind = "ref" /\ ret'.ref = call'.self)
       /\ call'.op \in {"and", "or", "xor", "not", "copy"} =>
              (ret'.err = "none" /\ ret'.kind = "ref" /\ ret'.ref = call'.dst)
       /\ call'.op = "copy" => sets'[call'.dst] = sets[call'.self]]_vars

\* C10 happens: c = a & b was evaluated with a and b different, not empty
\* and both different from the result, and a and b still hold their members.
C10_Witness ==
    /\ call.op = "and"
    /\ call.self = "a" /\ call.other = "b" /\ call.dst = "c"
    /\ sets["a"] = {0, 1}
    /\ sets["b"] = {1}
    /\ sets["c"] = {1}

\* The lowest ordinal of a set of members that is not empty.
Lowest(S) == CHOOSE x \in S : \A y \in S : x <= y

\* C11: two iterators are equal iff they refer to the same set instance and
\* hold the same index, and != is the negation; iterators of two different
\* instances are never equal; end() is at index size(); begin() = end()
\* holds iff none(), and otherwise begin() dereferences to the lowest member
\* of the set.
\* (After e[max] = true has written the storage bit past the valid ones,
\* none() is false in the code and begin() = end(): the member max has no
\* bit the iterator scans.)
C11_IteratorEquality ==
    /\ call.op = "iter_eq" =>
           ret.bool = (it.bitset = endIt.bitset /\ it.index = endIt.index)
    /\ call.op = "iter_neq" =>
           ret.bool = ~ (it.bitset = endIt.bitset /\ it.index = endIt.index)
    /\ \A s, other \in IterObjs :
           s # other =>
               /\ ~ IterEqual(begin(s), begin(other))
               /\ ~ IterEqual(end(s), end(other))
               /\ ~ IterEqual(begin(s), end(other))
    /\ \A s \in IterObjs :
           /\ end(s).index = size
           /\ IterEqual(begin(s), end(s)) <=> none(s)
           /\ ~ none(s) =>
                  /\ TrueMembers(s) # {}
                  /\ begin(s).value = Lowest(TrueMembers(s))

====
